---- MODULE Spec2Model ----
(***************************************************************************)
(* Model of tool/generate_ast.py: the grammar-driven generator of the AST  *)
(* class declarations of jlox.                                             *)
(*                                                                         *)
(* Text is a sequence of one-character strings, so that str.replace,       *)
(* str.strip and str.split are modelled by what they do to characters.     *)
(* The target directory is assumed writable: open() does not fail.         *)
(***************************************************************************)
EXTENDS Integers, Sequences, FiniteSets, TLC

(* ------------------------------ bounds --------------------------------- *)

\* most `;`-terminated clauses in a generated grammar text
MaxClauses == 2
\* most fields in the field list of a generated rule clause
MaxFields == 2

(* ----------------------- Python string operations ---------------------- *)

\* a string literal as a sequence of its characters
Chars(s) == [i \in 1..Len(s) |-> SubSeq(s, i, i)]

\* s[i:].startswith(p)
StartsWithAt(s, p, i) ==
    /\ i + Len(p) - 1 <= Len(s)
    /\ SubSeq(s, i, i + Len(p) - 1) = p

\* the concatenation of a list of texts: ''.join(list), file.writelines(list)
RECURSIVE writelines(_)
writelines(list) ==
    IF list = <<>> THEN <<>> ELSE Head(list) \o writelines(Tail(list))

\* the first position from st on at which p occurs in s, 0 if there is none
Find(s, p, st) ==
    LET hits == {i \in st..(Len(s) - Len(p) + 1) : StartsWithAt(s, p, i)}
    IN  IF hits = {} THEN 0 ELSE CHOOSE i \in hits : \A j \in hits : i <= j

\* str.split(sep): left to right, non-overlapping, empty parts are kept
RECURSIVE SplitFrom(_, _, _)
SplitFrom(s, sep, st) ==
    LET i == Find(s, sep, st)
    IN  IF i = 0 THEN <<SubSeq(s, st, Len(s))>>
        ELSE <<SubSeq(s, st, i - 1)>> \o SplitFrom(s, sep, i + Len(sep))

split(s, sep) == SplitFrom(s, Chars(sep), 1)

\* str.replace(old, new): left to right, non-overlapping
RECURSIVE ReplaceFrom(_, _, _, _)
ReplaceFrom(s, old, new, st) ==
    LET i == Find(s, old, st)
    IN  IF i = 0 THEN SubSeq(s, st, Len(s))
        ELSE SubSeq(s, st, i - 1) \o new
                 \o ReplaceFrom(s, old, new, i + Len(old))

replace(s, old, new) == ReplaceFrom(s, Chars(old), Chars(new), 1)

\* the characters str.strip() removes (ASCII whitespace)
Whitespace == {" ", "\n", "\t", "\r", "\f"}

RECURSIVE lstrip(_)
lstrip(s) ==
    IF s # <<>> /\ Head(s) \in Whitespace THEN lstrip(Tail(s)) ELSE s

RECURSIVE rstrip(_)
rstrip(s) ==
    IF s # <<>> /\ s[Len(s)] \in Whitespace
    THEN rstrip(SubSeq(s, 1, Len(s) - 1)) ELSE s

strip(s) == rstrip(lstrip(s))

(* --------------------------- module constants -------------------------- *)

\* the grammar literal of the script
grammar ==
    Chars("\nBinary : Expr left, Token operator, Expr right;\n")
    \o Chars("Grouping : Expr expression;\n")
    \o Chars("Literal : Object value;\n")
    \o Chars("Unary : Token operator, Expr right;\n")

path_name == "../lox/Expr.java"

\* base_name, without the removal of the extension
BaseNameWithExtension ==
    LET parts == split(Chars(path_name), "/")
    IN  parts[Len(parts)]

base_name ==
    LET parts == split(Chars(path_name), "/")
    IN  replace(parts[Len(parts)], ".java", "")

(* ------------------------------ inputs --------------------------------- *)

\* the single-line grammar of the round-trip scenario
RoundTripGrammar ==
    Chars("Binary : Expr left, Token operator, Expr right; ")
    \o Chars("Unary : Token operator, Expr right;")

RECURSIVE JoinWith(_, _)
JoinWith(list, sep) ==
    IF Len(list) = 0 THEN <<>>
    ELSE IF Len(list) = 1 THEN list[1]
    ELSE list[1] \o sep \o JoinWith(Tail(list), sep)

\* the k-th well-formed field, `T a`, `U b`, ..., and the fields that are
\* not of that form: without a space, with two spaces, empty
PlainField(k) ==
    <<Chars("TUVWXYZ")[k], " ", Chars("abcdefg")[k]>>

OddFields == {Chars("c"), Chars("f T a"), Chars("T  a"), Chars("")}

\* field lists of well-formed fields, at most one of them replaced by an
\* odd field, at any position
FieldListTexts ==
    UNION {
        {JoinWith([k \in 1..n |-> PlainField(k)], Chars(", "))}
        \cup {JoinWith([k \in 1..n |-> IF k = p THEN o ELSE PlainField(k)],
                       Chars(", ")) : p \in 1..n, o \in OddFields}
        : n \in 1..MaxFields}

\* clauses with one separator and any of the field lists, and clauses that
\* are empty, blank, without a separator, with two separators, or with two
\* separators sharing a space
RichClauses ==
    {Chars("R : ") \o fl : fl \in FieldListTexts}
    \cup {Chars(""), Chars(" "), Chars("Bad T a"), Chars("R:T a"),
          Chars("R : T a : U b"), Chars("R : : T a")}

\* the well-formed clause of position i: `A : T a, U b`, `B : T a, U b`, ...
PlainClause(i) == <<Chars("ABCDEFG")[i]>> \o Chars(" : T a, U b")

\* lists of well-formed clauses, one of them replaced by a rich clause, at
\* any position
ClauseLists ==
    {<<>>} \cup
    UNION {
        {[i \in 1..n |-> IF i = p THEN r ELSE PlainClause(i)] :
            p \in 1..n, r \in RichClauses}
        : n \in 1..MaxClauses}

\* what separates the clauses in the text, after each `;` and at its start
Gaps == {Chars(""), Chars("\n"), Chars(" ")}

\* the text after the last `;`
Tails == {Chars(""), Chars("Bad"), Chars("C : T a")}

GrammarText(gap, cl, tail) ==
    gap \o writelines([i \in 1..Len(cl) |-> cl[i] \o Chars(";") \o gap])
        \o tail

\* texts of semicolons with nothing or a space between them
SemicolonTexts == {Chars(";;"), Chars("; ;"), Chars(";;;")}

GrammarTexts ==
    {GrammarText(gap, cl, tail) :
        gap \in Gaps, cl \in ClauseLists, tail \in Tails}
    \cup SemicolonTexts
    \cup {grammar, RoundTripGrammar}

\* the command line: the script name, then at most one argument
ArgValues == {"out.java"}
CommandLines == {<<"generate_ast.py">>}
                  \cup {<<"generate_ast.py", a>> : a \in ArgValues}

Unbound == "<unbound>"

\* the files the run could touch, each absent or holding a text
Paths == {path_name} \cup ArgValues
Absent == [exists |-> FALSE, data |-> <<>>]
File(text) == [exists |-> TRUE, data |-> text]
OldContents == Chars("old")

(* ------------------------------- state --------------------------------- *)

VARIABLES
    text,       \* the grammar text the script was built with
    fs,         \* the file system: path -> Absent or File(contents)
    pc,         \* "idle", "main", "loop", "done" or "raised"
    argv,       \* sys.argv of the current invocation
    filename,   \* the global the argument is read into
    lines,      \* main: the clauses
    header,     \* main: the header lines
    body,       \* main: the body lines
    idx,        \* main: position of the for loop in lines
    name,       \* main: rule name of the last clause split
    fields,     \* main: field list of the last clause split
    err,        \* the exception that ended the run, "" if none
    history     \* the invocations that ended: command line, outcome, files

vars ==
    <<text, fs, pc, argv, filename, lines, header, body, idx, name, fields,
      err, history>>

Init ==
    /\ text \in GrammarTexts
    /\ fs \in {[p \in Paths |-> IF p = path_name THEN f ELSE Absent] :
                  f \in {Absent, File(OldContents)}}
    /\ pc = "idle"
    /\ argv = <<>>
    /\ filename = Unbound
    /\ lines = <<>>
    /\ header = <<>>
    /\ body = <<>>
    /\ idx = 1
    /\ name = <<>>
    /\ fields = <<>>
    /\ err = ""
    /\ history = <<>>

(* ------------------------------ the script ----------------------------- *)

\* if __name__ == '__main__': read the argument, call main(). The tool is
\* run once with each command line, in any order.
Invoke(a) ==
    /\ pc \in {"idle", "done", "raised"}
    /\ \A i \in 1..Len(history) : history[i].argv # a
    /\ argv' = a
    /\ filename' = IF Len(a) > 1 THEN a[2] ELSE Unbound
    /\ pc' = "main"
    /\ lines' = <<>>
    /\ header' = <<>>
    /\ body' = <<>>
    /\ idx' = 1
    /\ name' = <<>>
    /\ fields' = <<>>
    /\ err' = ""
    /\ UNCHANGED <<text, fs, history>>

\* SplitLines, had it dropped the empty chunks instead of the last one
NonEmptyText(c) == c # <<>>
SplitLinesSkipEmpty(g) ==
    SelectSeq(split(strip(replace(g, "\n", "")), ";"), NonEmptyText)

\* SplitLines, without `del lines[-1]`
SplitLinesKeepLast(g) == split(strip(replace(g, "\n", "")), ";")

\* SplitLines, had it deleted the last chunk only when it is empty
SplitLinesDropEmptyLast(g) ==
    LET all == split(strip(replace(g, "\n", "")), ";")
    IN  IF all[Len(all)] = <<>> THEN SubSeq(all, 1, Len(all) - 1) ELSE all

\* SplitLines, had it taken the chunks from the last to the first
SplitLinesReversed(g) ==
    LET all == split(strip(replace(g, "\n", "")), ";")
        n == Len(all) - 1
    IN  [i \in 1..n |-> all[n + 1 - i]]

\* SplitLines, had it stripped every chunk
SplitLinesStripped(g) ==
    LET all == split(strip(replace(g, "\n", "")), ";")
    IN  [i \in 1..(Len(all) - 1) |-> strip(all[i])]

\* lines = grammar.replace('\n', '').strip().split(';'); del lines[-1]
SplitLines(g) ==
    LET all == split(strip(replace(g, "\n", "")), ";")
    IN  SubSeq(all, 1, Len(all) - 1)

Header ==
    <<Chars("package com.craftinginterpreters.lox;\n\n")
        \o Chars("import java.util.List;\n\n")
        \o Chars("class ") \o base_name \o Chars(" {\n")>>

\* main, up to the for loop
Begin ==
    /\ pc = "main"
    /\ lines' = SplitLines(text)
    /\ header' = Header
    /\ body' = <<>>
    /\ idx' = 1
    /\ pc' = "loop"
    /\ UNCHANGED <<text, fs, argv, filename, name, fields, err, history>>

\* field.split(' ')[1] is an IndexError when the field has no space
HasFieldName(field) == Len(split(field, " ")) >= 2

\* FieldName, had it taken the last word of the field
FieldNameLast(field) ==
    LET words == split(field, " ") IN words[Len(words)]

FieldName(field) == split(field, " ")[2]

ClassOpen(n) ==
    Chars("\tstatic class ") \o n \o Chars(" extends ") \o base_name
        \o Chars(" {\n")

\* ConstructorOpen, without the parameters
ConstructorOpenNoParameters(n, fl) ==
    Chars("\t\tpublic ") \o n \o Chars("() {\n")

ConstructorOpen(n, fl) ==
    Chars("\t\tpublic ") \o n \o Chars("(") \o fl \o Chars(") {\n")

Assignment(field) ==
    Chars("\t\t\tthis.") \o FieldName(field) \o Chars(" = ")
        \o FieldName(field) \o Chars(";\n")

ConstructorClose == Chars("\t\t}\n")

FieldDecl(field) == Chars("\t\tpublic ") \o field \o Chars(";\n")

ClassClose == Chars("\t}\n")

\* Unpacks, had the split been limited to the first separator
UnpacksFirstTwo(parts) == Len(parts) >= 2

\* `name, fields = ...` unpacks a list of exactly two parts
Unpacks(parts) == Len(parts) = 2

\* the body of `for line in lines` for one line: the exception it raises
\* ("" if none), the lines it appends to body before that, and whether
\* name and fields were assigned
Iteration(line) ==
    LET parts == split(line, " : ")
    IN  IF ~Unpacks(parts)
        THEN [err |-> "ValueError", out |-> <<>>, bound |-> FALSE,
              name |-> <<>>, fields |-> <<>>]
        ELSE LET n == parts[1]
                 fl == split(parts[2], ", ")
                 bad == {k \in 1..Len(fl) : ~HasFieldName(fl[k])}
                 opened == <<ClassOpen(n), ConstructorOpen(n, parts[2])>>
             IN  IF bad # {}
                 THEN LET kb == CHOOSE k \in bad : \A j \in bad : k <= j
                      IN  [err |-> "IndexError",
                           out |-> opened \o [k \in 1..(kb - 1) |->
                                                  Assignment(fl[k])],
                           bound |-> TRUE, name |-> n, fields |-> parts[2]]
                 ELSE [err |-> "",
                       out |-> opened
                           \o [k \in 1..Len(fl) |-> Assignment(fl[k])]
                           \o <<ConstructorClose>>
                           \o [k \in 1..Len(fl) |-> FieldDecl(fl[k])]
                           \o <<ClassClose>>,
                       bound |-> TRUE, name |-> n, fields |-> parts[2]]

\* the ending of a run: the outcome is recorded
Ended(st, e, files) ==
    /\ pc' = st
    /\ err' = e
    /\ history' = Append(history,
                         [argv |-> argv, status |-> st, err |-> e,
                          fs |-> files])

\* one iteration of `for line in lines`
LoopIter ==
    /\ pc = "loop"
    /\ idx <= Len(lines)
    /\ LET r == Iteration(lines[idx])
       IN  /\ body' = body \o r.out
           /\ name' = IF r.bound THEN r.name ELSE name
           /\ fields' = IF r.bound THEN r.fields ELSE fields
           /\ IF r.err # ""
              THEN Ended("raised", r.err, fs) /\ UNCHANGED idx
              ELSE idx' = idx + 1 /\ UNCHANGED <<pc, err, history>>
    /\ UNCHANGED <<text, fs, argv, filename, lines, header>>

Footer == <<Chars("}")>>

\* Target, had the argument been used as the output path
TargetFromArgument(fn) == IF fn # Unbound THEN fn ELSE path_name

\* the path open() is given: path_name, whatever filename holds
Target(fn) == path_name

\* after the loop: the footer, and the three writes to open(path_name, 'w')
WriteFile ==
    /\ pc = "loop"
    /\ idx > Len(lines)
    /\ LET out == writelines(header) \o writelines(body)
                     \o writelines(Footer)
           files == [fs EXCEPT ![Target(filename)] = File(out)]
       IN  /\ fs' = files
           /\ Ended("done", "", files)
    /\ UNCHANGED <<text, argv, filename, lines, header, body, idx, name,
                   fields>>

\* main() as a function of the grammar text: the exception that ends it and
\* the text it writes
RECURSIVE Loop(_, _)
Loop(ls, acc) ==
    IF ls = <<>> THEN [err |-> "", body |-> acc]
    ELSE LET r == Iteration(Head(ls))
         IN  IF r.err # "" THEN [err |-> r.err, body |-> acc \o r.out]
             ELSE Loop(Tail(ls), acc \o r.out)

main(g) ==
    LET r == Loop(SplitLines(g), <<>>)
    IN  [err |-> r.err,
         out |-> IF r.err # "" THEN <<>>
                 ELSE writelines(Header) \o writelines(r.body)
                          \o writelines(Footer)]

Next ==
    \/ \E a \in CommandLines : Invoke(a)
    \/ Begin
    \/ LoopIter
    \/ WriteFile

Spec == Init /\ [][Next]_vars

(* ------------------- the grammar notation, as specified ---------------- *)

\* p occurs in s at position i
OccursAt(s, p, i) ==
    /\ i >= 1
    /\ i + Len(p) - 1 <= Len(s)
    /\ \A k \in 1..Len(p) : s[i + k - 1] = p[k]

\* the positions at which p occurs in s, taken from the left, each one
\* starting after the end of the one taken before it
RECURSIVE TakeFrom(_, _, _)
TakeFrom(occ, len, from) ==
    LET later == {i \in occ : i >= from}
    IN  IF later = {} THEN <<>>
        ELSE LET m == CHOOSE x \in later : \A y \in later : x <= y
             IN  <<m>> \o TakeFrom(occ, len, m + len)

Occurrences(s, p) ==
    TakeFrom({i \in 1..Len(s) : OccursAt(s, Chars(p), i)}, Len(p), 1)

\* the number of occurrences of p in s
Count(s, p) == Len(Occurrences(s, p))

\* the text before and the text after the first occurrence of p in s
Before(s, p) == SubSeq(s, 1, Occurrences(s, p)[1] - 1)
After(s, p) == SubSeq(s, Occurrences(s, p)[1] + Len(p), Len(s))

\* the texts the occurrences of p cut s into
Pieces(s, p) ==
    LET at == Occurrences(s, p)
        n == Len(at)
    IN  [k \in 1..(n + 1) |->
            SubSeq(s, IF k = 1 THEN 1 ELSE at[k - 1] + Len(p),
                      IF k = n + 1 THEN Len(s) ELSE at[k] - 1)]

Min(S) == CHOOSE x \in S : \A y \in S : x <= y
Max(S) == CHOOSE x \in S : \A y \in S : x >= y

NotLineBreak(c) == c # "\n"

\* the text without its line breaks and its leading and trailing whitespace
Normalised(t) ==
    LET u == SelectSeq(t, NotLineBreak)
        solid == {i \in 1..Len(u) : u[i] \notin Whitespace}
    IN  IF solid = {} THEN <<>> ELSE SubSeq(u, Min(solid), Max(solid))

\* the clauses a `;` ends, in order, and the text after the last `;`
TerminatedClauses(t) ==
    LET p == Pieces(Normalised(t), ";") IN SubSeq(p, 1, Len(p) - 1)

FinalClause(t) ==
    LET p == Pieces(Normalised(t), ";") IN p[Len(p)]

HasSpace(f) == \E i \in 1..Len(f) : f[i] = " "

RuleName(c) == Before(c, " : ")
FieldList(c) == After(c, " : ")
FieldsOf(c) == Pieces(FieldList(c), ", ")

\* a clause is malformed without exactly one " : " or with a field without
\* a space
Malformed(c) ==
    \/ Count(c, " : ") # 1
    \/ \E k \in 1..Len(FieldsOf(c)) : ~HasSpace(FieldsOf(c)[k])

Out == fs[path_name]
Terminal == pc \in {"done", "raised"}
InMain == pc \in {"loop", "done", "raised"}

\* no output file was produced, or the target kept its previous contents
Untouched == fs \in {[p \in Paths |-> IF p = path_name THEN f ELSE Absent] :
                        f \in {Absent, File(OldContents)}}

HeaderText ==
    Chars("package com.craftinginterpreters.lox;\n\n")
    \o Chars("import java.util.List;\n\nclass Expr {\n")

FooterText == Chars("}")

(* -------------------------------- C1 ----------------------------------- *)

OnlyWhitespace(t) == \A i \in 1..Len(t) : t[i] \in Whitespace
OnlyWhitespaceAndSemicolons(t) ==
    \A i \in 1..Len(t) : t[i] \in Whitespace \cup {";"}

\* C2 as claimed: every text of whitespace and semicolons yields the header
\* followed by the footer, without an error.
C2_AsClaimed ==
    (OnlyWhitespaceAndSemicolons(text) /\ Terminal)
        => /\ pc = "done"
           /\ Out = File(HeaderText \o FooterText)

\* C2: for every grammar text consisting only of whitespace the run
\* succeeds and the output is the header followed immediately by the
\* footer; for every text of whitespace and at least one semicolon the run
\* ends in the malformed-rule error and writes nothing.
C2_EmptyGrammar ==
    Terminal =>
        /\ OnlyWhitespace(text)
              => /\ pc = "done"
                 /\ err = ""
                 /\ Out = File(HeaderText \o FooterText)
        /\ (OnlyWhitespaceAndSemicolons(text) /\ ~OnlyWhitespace(text))
              => /\ pc = "raised"
                 /\ err = "ValueError"
                 /\ Untouched

\* a run on a non-empty text of whitespace has written its output
C2_Witness ==
    /\ OnlyWhitespace(text)
    /\ text # <<>>
    /\ pc = "done"

(* -------------------------------- C5 ----------------------------------- *)

\* C5: parsing a clause fails with the malformed-rule error (ValueError)
\* if and only if " : " occurs in it zero times or more than once, the
\* occurrences counted from the left without overlap as str.split and
\* str.count do; when it occurs once, the text to its left is the rule name
\* and the text to its right is the field list, unchanged.
C5_SeparatorRule ==
    InMain =>
        /\ \A i \in 1..(idx - 1) : Count(lines[i], " : ") = 1
        /\ pc = "raised"
              => /\ err \in {"ValueError", "IndexError"}
                 /\ err = "ValueError" <=> Count(lines[idx], " : ") # 1
        /\ LET last == IF pc = "raised" /\ err = "IndexError"
                       THEN idx ELSE idx - 1
           IN  last >= 1 => /\ name = Before(lines[last], " : ")
                            /\ fields = After(lines[last], " : ")

\* a clause with two separators was refused
C5_Witness ==
    /\ pc = "raised"
    /\ err = "ValueError"
    /\ Count(lines[idx], " : ") = 2

(* -------------------------------- C10 ---------------------------------- *)

\* the text up to its last `;`
WithoutFinalClause(t) ==
    LET semis == {i \in 1..Len(t) : t[i] = ";"}
    IN  IF semis = {} THEN <<>> ELSE SubSeq(t, 1, Max(semis))

OutLines == Pieces(Out.data, "\n")
BodyLines == SubSeq(OutLines, 6, Len(OutLines) - 1)

\* the final component of the output path, without its extension
Stem(p) ==
    LET c == Chars(p)
        slashes == {i \in 1..Len(c) : c[i] = "/"}
        from == IF slashes = {} THEN 1 ELSE Max(slashes) + 1
        dots == {i \in from..Len(c) : c[i] = "."}
        to == IF dots = {} THEN Len(c) ELSE Max(dots) - 1
    IN  SubSeq(c, from, to)

IsBlockOpen(l) == OccursAt(l, Chars("\tstatic class "), 1)
IsBlockClose(l) == l = Chars("\t}")
IsAssignment(l) == OccursAt(l, Chars("\t\t\tthis."), 1)

BlockOpenLine(n) ==
    Chars("\tstatic class ") \o n \o Chars(" extends Expr {")

\* the second word of a field: the text between its first space and the
\* next space, or the end of the field
SecondWord(f) ==
    LET sp == {i \in 1..Len(f) : f[i] = " "}
        rest == {i \in sp : i > Min(sp)}
    IN  SubSeq(f, Min(sp) + 1, IF rest = {} THEN Len(f) ELSE Min(rest) - 1)

\* everything after the first space of a field
AfterFirstSpace(f) ==
    LET sp == {i \in 1..Len(f) : f[i] = " "}
    IN  SubSeq(f, Min(sp) + 1, Len(f))

AssignmentLine(n) ==
    Chars("\t\t\tthis.") \o n \o Chars(" = ") \o n \o Chars(";")

\* the block of a rule with n fields has 2n + 4 lines
BlockLen(c) == 2 * Len(FieldsOf(c)) + 4

RECURSIVE BlockStart(_, _)
BlockStart(tc, i) ==
    IF i = 1 THEN 1 ELSE BlockStart(tc, i - 1) + BlockLen(tc[i - 1])

(* -------------------------------- C3 ----------------------------------- *)

\* the output for the round-trip grammar, given the second emitted name
RoundTripOutput(second) ==
    HeaderText
    \o Chars("\tstatic class Binary extends Expr {\n")
    \o Chars("\t\tpublic Binary(Expr left, Token operator, Expr right) {\n")
    \o Chars("\t\t\tthis.left = left;\n")
    \o Chars("\t\t\tthis.operator = operator;\n")
    \o Chars("\t\t\tthis.right = right;\n")
    \o Chars("\t\t}\n")
    \o Chars("\t\tpublic Expr left;\n")
    \o Chars("\t\tpublic Token operator;\n")
    \o Chars("\t\tpublic Expr right;\n")
    \o Chars("\t}\n")
    \o Chars("\tstatic class ") \o Chars(second) \o Chars(" extends Expr {\n")
    \o Chars("\t\tpublic ") \o Chars(second)
    \o Chars("(Token operator, Expr right) {\n")
    \o Chars("\t\t\tthis.operator = operator;\n")
    \o Chars("\t\t\tthis.right = right;\n")
    \o Chars("\t\t}\n")
    \o Chars("\t\tpublic Token operator;\n")
    \o Chars("\t\tpublic Expr right;\n")
    \o Chars("\t}\n")
    \o FooterText

\* C3 as claimed: the two blocks are named exactly Binary and Unary.
C3_AsClaimed ==
    (text = RoundTripGrammar /\ pc = "done")
        => Out = File(RoundTripOutput("Unary"))

\* C3: for the single-line round-trip grammar the output has exactly two
\* blocks, Binary then Unary, with the parameters left, operator, right and
\* three field declarations for Binary and the parameters operator, right
\* for Unary; the first emitted name is `Binary` and the second is ` Unary`,
\* with the space that follows the `;` in the grammar kept in front of it.
C3_RoundTrip ==
    (text = RoundTripGrammar /\ Terminal)
        => /\ pc = "done"
           /\ Out = File(RoundTripOutput(" Unary"))
           /\ Len(SelectSeq(OutLines, IsBlockOpen)) = 2

C3_Witness ==
    /\ text = RoundTripGrammar
    /\ pc = "done"

(* -------------------------------- C4 ----------------------------------- *)

NonEmptyClauses(t) ==
    SelectSeq(TerminatedClauses(t), NonEmptyText)

\* C4 as claimed: empty clauses give no block and do not keep the blocks of
\* the other clauses from being emitted, one per non-empty clause, in order.
C4_AsClaimed ==
    LET ne == NonEmptyClauses(text)
    IN  ((\A i \in 1..Len(ne) : ~Malformed(ne[i])) /\ Terminal)
            => /\ pc = "done"
               /\ SelectSeq(BodyLines, IsBlockOpen)
                     = [i \in 1..Len(ne) |-> BlockOpenLine(RuleName(ne[i]))]

\* C4: for every grammar text on which the run succeeds, the number of
\* subtype blocks of the output equals the number of `;`-terminated clauses,
\* none of which is empty, and the blocks appear in the order of their
\* clauses; a text with an empty `;`-terminated clause ends the run in an
\* error and nothing is written.
C4_RuleCount ==
    LET tc == TerminatedClauses(text)
    IN  /\ pc = "done"
              => /\ \A i \in 1..Len(tc) : tc[i] # <<>>
                 /\ Count(Out.data, "static class ") = Len(tc)
                 /\ SelectSeq(BodyLines, IsBlockOpen)
                       = [i \in 1..Len(tc) |->
                              BlockOpenLine(RuleName(tc[i]))]
        /\ ((\E i \in 1..Len(tc) : tc[i] = <<>>) /\ Terminal)
              => /\ pc = "raised"
                 /\ err # ""
                 /\ Untouched

\* a run wrote the blocks of two clauses with different rule names
C4_Witness ==
    LET tc == TerminatedClauses(text)
    IN  /\ pc = "done"
        /\ Len(tc) = 2
        /\ RuleName(tc[1]) # RuleName(tc[2])

(* -------------------------------- C6 ----------------------------------- *)

\* the assignment lines of the i-th block of the body lines bl
AssignmentLines(bl, tc, i) ==
    SubSeq(bl, BlockStart(tc, i) + 2,
           BlockStart(tc, i) + 1 + Len(FieldsOf(tc[i])))

\* a field list is refused if and only if one of its fields has no space
FieldErrorRule ==
    InMain =>
        /\ \A i \in 1..(idx - 1) :
              \A k \in 1..Len(FieldsOf(lines[i])) :
                  HasSpace(FieldsOf(lines[i])[k])
        /\ pc = "raised"
              => (err = "IndexError"
                    <=> /\ Count(lines[idx], " : ") = 1
                        /\ \E k \in 1..Len(FieldsOf(lines[idx])) :
                               ~HasSpace(FieldsOf(lines[idx])[k]))

\* C6 as claimed: the name assigned in the initializer is everything after
\* the first space of the field.
C6_AsClaimed ==
    LET tc == TerminatedClauses(text)
    IN  /\ FieldErrorRule
        /\ pc = "done"
              => LET bl == BodyLines
                 IN  \A i \in 1..Len(tc) :
                         AssignmentLines(bl, tc, i)
                             = [k \in 1..Len(FieldsOf(tc[i])) |->
                                  AssignmentLine(
                                      AfterFirstSpace(FieldsOf(tc[i])[k]))]

\* C6: for every field string obtained by splitting a field list on ", ",
\* the name used in the initializer assignment is the second of the words
\* the spaces of the field separate, the text between its first space and
\* its next space or its end (`final Expr left` yields `Expr`, `Expr  left`
\* yields the empty name); parsing fails with the malformed-field error
\* (IndexError) if and only if the field string contains no space.
C6_FieldName ==
    LET tc == TerminatedClauses(text)
    IN  /\ FieldErrorRule
        /\ pc = "done"
              => LET bl == BodyLines
                 IN  \A i \in 1..Len(tc) :
                         AssignmentLines(bl, tc, i)
                             = [k \in 1..Len(FieldsOf(tc[i])) |->
                                  AssignmentLine(
                                      SecondWord(FieldsOf(tc[i])[k]))]

\* a run wrote the block of a rule one of whose fields has two spaces
C6_Witness ==
    LET tc == TerminatedClauses(text)
    IN  /\ pc = "done"
        /\ \E i \in 1..Len(tc) : \E k \in 1..Len(FieldsOf(tc[i])) :
               Count(FieldsOf(tc[i])[k], " ") = 2

(* -------------------------------- C7 ----------------------------------- *)

\* C7: the block of every parsed rule with fields f1..fn holds, in this
\* order: the initializer opening with the parameter list f1, ..., fn; n
\* assignments, the i-th of the name of fi (its second word) to the member
\* of the same name, and no other assignment; the initializer close; n
\* public field declarations, the i-th declaring fi; the block close.
C7_BlockLayout ==
    LET tc == TerminatedClauses(text)
        bl == BodyLines
    IN  pc = "done" =>
          /\ Len(bl) = BlockStart(tc, Len(tc) + 1) - 1
          /\ \A i \in 1..Len(tc) :
                LET fl == FieldsOf(tc[i])
                    n == Len(fl)
                    b == BlockStart(tc, i)
                    block == SubSeq(bl, b, b + 2 * n + 3)
                IN  /\ n >= 1
                    /\ block[2] = Chars("\t\tpublic ") \o RuleName(tc[i])
                                     \o Chars("(")
                                     \o JoinWith(fl, Chars(", "))
                                     \o Chars(") {")
                    /\ \A k \in 1..n :
                          block[2 + k] = AssignmentLine(SecondWord(fl[k]))
                    /\ Len(SelectSeq(block, IsAssignment)) = n
                    /\ block[n + 3] = Chars("\t\t}")
                    /\ \A k \in 1..n :
                          block[n + 3 + k] = Chars("\t\tpublic ") \o fl[k]
                                                \o Chars(";")
                    /\ block[2 * n + 4] = Chars("\t}")

\* a run wrote the block of a rule with two different fields
C7_Witness ==
    LET tc == TerminatedClauses(text)
    IN  /\ pc = "done"
        /\ \E i \in 1..Len(tc) :
               /\ Len(FieldsOf(tc[i])) >= 2
               /\ FieldsOf(tc[i])[1] # FieldsOf(tc[i])[2]

(* -------------------------------- C8 ----------------------------------- *)

IsBlockOpenOrClose(l) == IsBlockOpen(l) \/ IsBlockClose(l)

\* C8: every written output begins with the header, whose last line opens
\* the base type named after the final component of the output path without
\* its extension, and ends with the footer closing it; the subtype blocks
\* lie between the two, and each is closed before the next one is opened.
C8_Wrapping ==
    pc = "done" =>
        /\ Out.exists
        /\ Len(OutLines) >= 6
        /\ SubSeq(OutLines, 1, 5)
              = << Chars("package com.craftinginterpreters.lox;"),
                   <<>>,
                   Chars("import java.util.List;"),
                   <<>>,
                   Chars("class ") \o Stem(path_name) \o Chars(" {") >>
        /\ OutLines[Len(OutLines)] = Chars("}")
        /\ LET bl == BodyLines
               marks == SelectSeq(bl, IsBlockOpenOrClose)
           IN  /\ Len(marks) = 2 * Len(TerminatedClauses(text))
               /\ \A m \in 1..Len(marks) :
                      IF m % 2 = 1 THEN IsBlockOpen(marks[m])
                      ELSE IsBlockClose(marks[m])
               /\ bl # <<>>
                     => /\ IsBlockOpen(bl[1])
                        /\ IsBlockClose(bl[Len(bl)])
               /\ \A m \in 1..Len(bl) :
                      /\ bl[m] # Chars("}")
                      /\ OccursAt(bl[m], Chars("\t"), 1)

\* a run wrote an output with two blocks
C8_Witness ==
    /\ pc = "done"
    /\ Len(SelectSeq(BodyLines, IsBlockOpen)) = 2

(* -------------------------------- C9 ----------------------------------- *)

\* C9: the runs of one grammar text end alike and leave the same files,
\* whether the command-line argument is absent or present: the output is
\* written to path_name only and its text does not depend on the argument.
C9_ArgumentInert ==
    /\ \A i, j \in 1..Len(history) :
          /\ history[i].status = history[j].status
          /\ history[i].err = history[j].err
          /\ history[i].fs = history[j].fs
    /\ \A p \in Paths \ {path_name} : fs[p] = Absent
    /\ pc = "done" => Out = File(main(text).out)

\* two runs, one without and one with the argument, wrote their output
C9_Witness ==
    /\ Len(history) = 2
    /\ history[1].argv # history[2].argv
    /\ history[2].status = "done"
    /\ filename # Unbound

====
